---- MODULE Spec2Model ----
(***************************************************************************)
(* Model of app.py, a Streamlit journaling application.                    *)
(*                                                                         *)
(* A Streamlit script is re-executed from its first line on every widget   *)
(* interaction; st.session_state and the values of the widgets rendered by *)
(* the previous run survive between runs.  One action of this model is one *)
(* user interaction together with the complete script run it triggers.     *)
(*                                                                         *)
(* Strings are sequences of one-character strings, so that strip(),        *)
(* lower(), slicing and formatting are computed and not assumed.           *)
(* Confidence values are held in thousandths (0.85 is 850).                *)
(***************************************************************************)
EXTENDS Integers, Sequences, FiniteSets, TLC

\* ------------------------------------------------------------------ bounds
MaxEntries == 3
MaxClock == 1
MaxLongEntries == 11
MaxLongTexts == 1

\* ------------------------------------------------------- character strings
LowerLetters ==
  <<"a","b","c","d","e","f","g","h","i","j","k","l","m",
    "n","o","p","q","r","s","t","u","v","w","x","y","z">>

UpperLetters ==
  <<"A","B","C","D","E","F","G","H","I","J","K","L","M",
    "N","O","P","Q","R","S","T","U","V","W","X","Y","Z">>

Digits == <<"0","1","2","3","4","5","6","7","8","9">>

Whitespace == {" ", "\t", "\n", "\r", "\f"}

Range(s) == {s[i] : i \in 1..Len(s)}

LowerChar(c) ==
  IF \E i \in 1..26 : UpperLetters[i] = c
  THEN LowerLetters[CHOOSE i \in 1..26 : UpperLetters[i] = c]
  ELSE c

UpperChar(c) ==
  IF \E i \in 1..26 : LowerLetters[i] = c
  THEN UpperLetters[CHOOSE i \in 1..26 : LowerLetters[i] = c]
  ELSE c

\* str.lower()
Lower(s) == [i \in 1..Len(s) |-> LowerChar(s[i])]

\* str.upper()
Upper(s) == [i \in 1..Len(s) |-> UpperChar(s[i])]

\* str.capitalize(): first character upper-cased, the rest lower-cased
Capitalize(s) ==
  [i \in 1..Len(s) |-> IF i = 1 THEN UpperChar(s[i]) ELSE LowerChar(s[i])]

\* str.strip(): leading and trailing whitespace removed
Strip(s) ==
  LET keep == {i \in 1..Len(s) : s[i] \notin Whitespace}
  IN  IF keep = {} THEN <<>>
      ELSE SubSeq(s, CHOOSE i \in keep : \A j \in keep : i <= j,
                     CHOOSE i \in keep : \A j \in keep : i >= j)

\* s[:n]
Prefix(s, n) == IF Len(s) <= n THEN s ELSE SubSeq(s, 1, n)

\* s[-n:]
Suffix(s, n) == IF Len(s) <= n THEN s ELSE SubSeq(s, Len(s) - n + 1, Len(s))

Repeat(c, n) == [i \in 1..n |-> c]

RECURSIVE DecimalDigits(_)
\* str(n) for a natural number n
DecimalDigits(n) ==
  IF n < 10 THEN <<Digits[n + 1]>>
  ELSE DecimalDigits(n \div 10) \o <<Digits[(n % 10) + 1]>>

\* two-digit zero-padded field of strftime
TwoDigits(n) == <<Digits[(n \div 10) + 1], Digits[(n % 10) + 1]>>

\* ------------------------------------------------------------ emotion words
W_joy == <<"j","o","y">>
W_sadness == <<"s","a","d","n","e","s","s">>
W_anger == <<"a","n","g","e","r">>
W_fear == <<"f","e","a","r">>
W_surprise == <<"s","u","r","p","r","i","s","e">>
W_neutral == <<"n","e","u","t","r","a","l">>
W_disgust == <<"d","i","s","g","u","s","t">>
W_happy == <<"h","a","p","p","y">>

valid_emotions == <<W_joy, W_sadness, W_anger, W_fear, W_surprise, W_neutral>>

DefaultConfidence == 850
FallbackConfidence == 500

\* A backend request either returns text or raises.
Returned(t) == [ok |-> TRUE, text |-> t]
Raised == [ok |-> FALSE, text |-> <<>>]

\* Variant: the raw output is lower-cased but not stripped.
detect_without_strip(outcome) ==
  IF outcome.ok
  THEN LET emotion == Lower(outcome.text)
       IN  [emotion |-> IF emotion \notin Range(valid_emotions)
                        THEN W_neutral ELSE emotion,
            confidence |-> DefaultConfidence,
            error |-> FALSE, raises |-> FALSE]
  ELSE [emotion |-> W_neutral, confidence |-> FallbackConfidence,
        error |-> TRUE, raises |-> FALSE]

\* Variant: no try/except around the request, a failure leaves the function.
detect_propagates(outcome) ==
  IF outcome.ok
  THEN LET emotion == Lower(Strip(outcome.text))
       IN  [emotion |-> IF emotion \notin Range(valid_emotions)
                        THEN W_neutral ELSE emotion,
            confidence |-> DefaultConfidence,
            error |-> FALSE, raises |-> FALSE]
  ELSE [emotion |-> W_neutral, confidence |-> FallbackConfidence,
        error |-> FALSE, raises |-> TRUE]

\* The result of a call: the pair returned, whether st.error was shown, and
\* whether an exception left the function (raises).
detect_emotion_with_gemini(outcome) ==
  IF outcome.ok
  THEN LET emotion == Lower(Strip(outcome.text))
       IN  [emotion |-> IF emotion \notin Range(valid_emotions)
                        THEN W_neutral ELSE emotion,
            confidence |-> DefaultConfidence,
            error |-> FALSE, raises |-> FALSE]
  ELSE [emotion |-> W_neutral, confidence |-> FallbackConfidence,
        error |-> TRUE, raises |-> FALSE]

\* ------------------------------------------------------------- formatting
SeparatorWidth == 60
RecentWindow == 10
PromptTextBudget == 400

BaseDate == <<"2","0","2","5","-","0","1","-","0","1">>

\* datetime.now().strftime("%Y-%m-%d"); the clock counts seconds of one day
FormatDate(n) == BaseDate

\* datetime.now().strftime("%Y-%m-%d %H:%M:%S")
FormatTime(n) ==
  FormatDate(n) \o <<" ">> \o TwoDigits(n \div 3600) \o <<":">>
    \o TwoDigits((n \div 60) % 60) \o <<":">> \o TwoDigits(n % 60)

\* f"{confidence:.1%}" for a confidence held in thousandths
FormatConfidence(c) ==
  DecimalDigits(c \div 10) \o <<".">> \o <<Digits[(c % 10) + 1]>> \o <<"%">>

\* (count / total) * 100 in tenths of a percent, rounded as ".1f" rounds
\* (to nearest, exact halves to the even digit)
PercentTenths(count, total) ==
  LET q == (count * 1000) \div total
      r == (count * 1000) % total
  IN  IF 2 * r > total THEN q + 1
      ELSE IF 2 * r < total THEN q
      ELSE IF q % 2 = 0 THEN q ELSE q + 1

\* f"{percentage:.1f}"
FormatPercentage(count, total) ==
  LET t == PercentTenths(count, total)
  IN  DecimalDigits(t \div 10) \o <<".">> \o <<Digits[(t % 10) + 1]>>

\* ------------------------------------------------------------- aggregation
RECURSIVE Tally(_, _, _)
\* lines 213-215: emotion_counts as the dict's items in insertion order
Tally(emotions, i, acc) ==
  IF i > Len(emotions) THEN acc
  ELSE LET e == emotions[i]
           hit == {k \in 1..Len(acc) : acc[k][1] = e}
       IN  IF hit = {}
           THEN Tally(emotions, i + 1, Append(acc, <<e, 1>>))
           ELSE Tally(emotions, i + 1,
                      [k \in 1..Len(acc) |->
                         IF k \in hit THEN <<acc[k][1], acc[k][2] + 1>> ELSE acc[k]])

\* Variant: an item goes before the items of equal count (an unstable order).
InsertByCount_unstable(sorted, item) ==
  LET before == {k \in 1..Len(sorted) : sorted[k][2] > item[2]}
      n == Cardinality(before)
  IN  SubSeq(sorted, 1, n) \o <<item>> \o SubSeq(sorted, n + 1, Len(sorted))

\* where a stable descending sort puts an item: after every item already
\* placed whose count is not smaller
InsertByCount(sorted, item) ==
  LET before == {k \in 1..Len(sorted) : sorted[k][2] >= item[2]}
      n == Cardinality(before)
  IN  SubSeq(sorted, 1, n) \o <<item>> \o SubSeq(sorted, n + 1, Len(sorted))

RECURSIVE SortByCount(_, _, _)
\* sorted(emotion_counts.items(), key=lambda x: x[1], reverse=True)
SortByCount(items, i, acc) ==
  IF i > Len(items) THEN acc
  ELSE SortByCount(items, i + 1, InsertByCount(acc, items[i]))

emotion_counts(log) == Tally([i \in 1..Len(log) |-> log[i].emotion], 1, <<>>)

SortedCounts(log) == SortByCount(emotion_counts(log), 1, <<>>)

\* lines 218-221: one displayed row per pair
EmotionRows(log) ==
  LET s == SortedCounts(log)
  IN  [k \in 1..Len(s) |->
         [label |-> Capitalize(s[k][1]),
          count |-> s[k][2],
          percentage |-> FormatPercentage(s[k][2], Len(log))]]

\* ------------------------------------------------------------ text builders
T_Date == <<"D","a","t","e",":"," ">>
T_Emotion == <<"E","m","o","t","i","o","n",":"," ">>
T_Confidence == <<" ","(","c","o","n","f","i","d","e","n","c","e",":"," ">>
T_Entries == <<" ","e","n","t","r","i","e","s"," ","(">>
T_Title ==
  <<"T","H","E","R","A","P","Y"," ","S","E","S","S","I","O","N"," ",
    "P","R","E","P"," ","S","U","M","M","A","R","Y">>
T_Generated == <<"G","e","n","e","r","a","t","e","d",":"," ">>
T_Distribution ==
  <<"E","M","O","T","I","O","N","A","L"," ",
    "D","I","S","T","R","I","B","U","T","I","O","N",":">>
T_Prompt == <<"P","r","o","m","p","t",":"," ">>
T_Response == <<"R","e","s","p","o","n","s","e",":"," ">>
T_All == <<"A","l","l">>

\* lines 307-310: what one entry adds to export_text
ExportBlock(e) ==
  <<"\n">> \o Repeat("=", SeparatorWidth) \o <<"\n">>
    \o T_Date \o e.timestamp \o <<"\n">>
    \o T_Emotion \o e.emotion \o T_Confidence
    \o FormatConfidence(e.confidence) \o <<")", "\n">>
    \o <<"\n">> \o e.text \o <<"\n">>

RECURSIVE ExportLoop(_, _, _)
ExportLoop(log, i, acc) ==
  IF i > Len(log) THEN acc
  ELSE ExportLoop(log, i + 1, acc \o ExportBlock(log[i]))

\* lines 305-310
ExportText(log) == ExportLoop(log, 1, <<>>)

\* line 234: one element of the joined list
RecentItem(e) ==
  <<"[">> \o e.timestamp \o <<"]", " ">> \o T_Emotion \o e.emotion
    \o <<"\n">> \o Prefix(e.text, PromptTextBudget)

RECURSIVE Join(_, _, _)
\* "\n\n".join(items)
Join(items, i, acc) ==
  IF i > Len(items) THEN acc
  ELSE Join(items, i + 1,
            IF i = 1 THEN items[i] ELSE acc \o <<"\n", "\n">> \o items[i])

\* Variant: no window, every entry is listed.
recent_entries_unbounded(log) == log

\* line 232
recent_entries(log) == Suffix(log, RecentWindow)

\* lines 232-236
EntriesText(log) ==
  LET recent == recent_entries(log)
  IN  Join([i \in 1..Len(recent) |-> RecentItem(recent[i])], 1, <<>>)

\* line 265
SummaryLine(pair, total) ==
  <<"-", " ">> \o Capitalize(pair[1]) \o <<":", " ">> \o DecimalDigits(pair[2])
    \o T_Entries \o FormatPercentage(pair[2], total) \o <<"%", ")", "\n">>

RECURSIVE SummaryLines(_, _, _, _)
SummaryLines(pairs, total, i, acc) ==
  IF i > Len(pairs) THEN acc
  ELSE SummaryLines(pairs, total, i + 1, acc \o SummaryLine(pairs[i], total))

\* lines 256-262
SummaryHead(response, n) ==
  T_Title \o <<"\n">> \o T_Generated \o FormatDate(n) \o <<"\n", "\n">>
    \o response \o <<"\n", "\n">> \o T_Distribution \o <<"\n">>

\* lines 256-265
FullSummary(response, n, log) ==
  SummaryLines(SortedCounts(log), Len(log), 1, SummaryHead(response, n))

\* line 179
PromptEntryText(prompt, response) ==
  T_Prompt \o prompt \o <<"\n", "\n">> \o T_Response \o response

\* reversed(filtered_entries)
Reversed(s) == [i \in 1..Len(s) |-> s[Len(s) + 1 - i]]

\* lines 291-293
filtered_entries(log, f) ==
  IF f # T_All THEN SelectSeq(log, LAMBDA e : e.emotion = f) ELSE log

\* -------------------------------------------------------------------- state
VARIABLES
  entries,         \* st.session_state.entries
  has_entries,     \* 'entries' in st.session_state
  page,            \* value of the "Navigate" selectbox in the last run
  user_entry,      \* value of the journal text area in the last run
  topic,           \* value of the focus-area selectbox in the last run
  quick_entry,     \* value of the "quick_journal" text area in the last run
  filter_emotion,  \* value of the history filter selectbox in the last run
  trigger,         \* the button whose click caused the last run, "none" if none
  rendered,        \* the widgets the last run rendered
  shown,           \* the messages the last run displayed
  startup,         \* what lines 9-30 met in the last run
  model,           \* the module-level name `model`: 0 is None, k is model_options[k]
  using_model,     \* the candidate announced by "Using model", 0 if none
  calls,           \* the generate_content requests of the last run, in order
  raw,             \* what the emotion request of the last run returned
  detected,        \* the pair detect_emotion_with_gemini returned, <<>> if not called
  prompt_text,     \* the generated prompt displayed by the last run
  emotion_rows,    \* the distribution rows displayed by the last run
  entries_text,    \* the listing placed in summary_prompt by the last run
  full_summary,    \* data of the "Download Summary" button
  history_view,    \* the expanders of the history page, top to bottom
  export_text,     \* data of the "Download Complete Journal" button
  now              \* the last value read from the clock

vars ==
  <<entries, has_entries, page, user_entry, topic, quick_entry, filter_emotion,
    trigger, rendered, shown, startup, model, using_model, calls, raw, detected,
    prompt_text, emotion_rows, entries_text, full_summary, history_view,
    export_text, now>>

\* --------------------------------------------------------------- the script
model_options ==
  <<"gemini-1.5-flash-latest", "gemini-1.5-flash", "gemini-1.5-pro-latest",
    "gemini-pro">>

Pages == <<"Journal Entry", "Get Prompt", "Therapy Prep", "View History">>

Topics ==
  <<"General Reflection", "Stress & Anxiety", "Gratitude", "Self-Compassion",
    "Relationships", "Personal Growth", "Emotions">>

\* What one candidate does in the loop of lines 22-30.
CandidateOutcomes == {"ok", "construct_raises", "generate_raises"}

RECURSIVE TryModels(_, _, _)
\* lines 22-30, from candidate i on, with `model` bound to m
TryModels(i, m, outs) ==
  IF i > Len(model_options) THEN [model |-> m, using |-> 0, tests |-> <<>>]
  ELSE IF outs[i] = "construct_raises" THEN TryModels(i + 1, m, outs)
  ELSE IF outs[i] = "generate_raises"
       THEN LET r == TryModels(i + 1, i, outs)
            IN  [r EXCEPT !.tests = <<"test">> \o @]
  ELSE [model |-> i, using |-> i, tests |-> <<"test">>]

\* lines 9-38
Startup(env) ==
  IF ~env.configured
  THEN [stopped |-> TRUE, shown |-> {"err_api_key"}, model |-> 0, using |-> 0,
        tests |-> <<>>]
  ELSE LET r == TryModels(1, 0, env.candidates)
       IN  IF r.model = 0
           THEN [stopped |-> TRUE, shown |-> {"err_no_model"}, model |-> 0,
                 using |-> 0, tests |-> r.tests]
           ELSE [stopped |-> FALSE,
                 shown |-> IF r.using # 0 THEN {"using_model"} ELSE {},
                 model |-> r.model, using |-> r.using, tests |-> r.tests]

\* st.button(label): true only in the run its own click triggered
Button(trig, label) == trig = label

\* What a run leaves when nothing of a page executes.
Blank(log) ==
  [entries |-> log, rendered |-> {}, shown |-> {}, calls |-> <<>>,
   raw |-> Raised, detected |-> <<>>, prompt_text |-> <<>>,
   emotion_rows |-> <<>>, entries_text |-> <<>>, full_summary |-> <<>>,
   history_view |-> <<>>, export_text |-> <<>>, clock |-> now]

\* Variant: the text is stored stripped.
entry_data_stripped(n, text, d) ==
  [timestamp |-> FormatTime(n), text |-> Strip(text), emotion |-> d.emotion,
   confidence |-> d.confidence]

\* lines 98-103 and 177-182
entry_data(n, text, d) ==
  [timestamp |-> FormatTime(n), text |-> text, emotion |-> d.emotion,
   confidence |-> d.confidence]

\* lines 76-141
JournalPage(trig, w, env, log) ==
  LET base == [Blank(log) EXCEPT !.rendered = {"user_entry", "save_entry"}]
  IN  IF ~Button(trig, "save_entry") THEN base
      ELSE IF Strip(w.user_entry) = <<>>
           THEN [base EXCEPT !.shown = {"warn_write_something"}]
      ELSE LET d == detect_emotion_with_gemini(env.detect)
           IN  IF d.raises
               THEN [base EXCEPT !.shown = {"err_occurred"},
                                 !.calls = <<"detect">>,
                                 !.raw = env.detect]
               ELSE [base EXCEPT
                       !.entries = Append(log, entry_data(env.clock, w.user_entry, d)),
                       !.shown = {"entry_saved", "detected_emotion"}
                                   \cup (IF d.error THEN {"err_detection"} ELSE {})
                                   \cup (IF env.support.ok
                                         THEN {"support_response"}
                                         ELSE {"support_fallback"}),
                       !.calls = <<"detect", "support">>,
                       !.raw = env.detect,
                       !.detected = <<d.emotion, d.confidence>>,
                       !.clock = env.clock]

\* lines 171-184, reached only inside the "Generate Prompt" branch
SaveThisEntry(trig, w, env, shownPrompt, base) ==
  IF ~Button(trig, "save_this_entry") THEN base
  ELSE IF Strip(w.quick_entry) = <<>> THEN base
  ELSE LET d == detect_emotion_with_gemini(env.detect)
       IN  IF d.raises
           THEN [base EXCEPT !.shown = @ \cup {"fallback_prompt"},
                             !.calls = @ \o <<"detect">>,
                             !.raw = env.detect]
           ELSE [base EXCEPT
                   !.entries = Append(@, entry_data(env.clock,
                                  PromptEntryText(shownPrompt, w.quick_entry), d)),
                   !.shown = @ \cup {"entry_saved"}
                               \cup (IF d.error THEN {"err_detection"} ELSE {}),
                   !.calls = @ \o <<"detect">>,
                   !.raw = env.detect,
                   !.detected = <<d.emotion, d.confidence>>,
                   !.clock = env.clock]

\* lines 144-198
PromptPage(trig, w, env, log) ==
  LET base == [Blank(log) EXCEPT !.rendered = {"topic", "generate_prompt"}]
  IN  IF ~Button(trig, "generate_prompt") THEN base
      ELSE IF ~env.prompt.ok
           THEN [base EXCEPT !.shown = {"fallback_prompt"}, !.calls = <<"prompt">>]
      ELSE SaveThisEntry(trig, w, env, env.prompt.text,
             [base EXCEPT
                !.rendered = @ \cup {"quick_journal", "save_this_entry"},
                !.shown = {"prompt"},
                !.prompt_text = env.prompt.text,
                !.calls = <<"prompt">>])

\* lines 201-275
TherapyPage(trig, w, env, log) ==
  IF Len(log) = 0 THEN [Blank(log) EXCEPT !.shown = {"no_entries"}]
  ELSE LET base == [Blank(log) EXCEPT
                      !.rendered = {"generate_summary"},
                      !.shown = {"total_entries", "patterns"},
                      !.emotion_rows = EmotionRows(log)]
       IN  IF ~Button(trig, "generate_summary") THEN base
           ELSE IF ~env.summary.ok
                THEN [base EXCEPT !.shown = @ \cup {"err_summary"},
                                  !.entries_text = EntriesText(log),
                                  !.calls = <<"summary">>]
           ELSE [base EXCEPT
                   !.rendered = @ \cup {"download_summary"},
                   !.shown = @ \cup {"summary"},
                   !.entries_text = EntriesText(log),
                   !.full_summary = FullSummary(env.summary.text, env.clock, log),
                   !.calls = <<"summary">>,
                   !.clock = env.clock]

\* lines 297-300: the expanders, newest first
HistoryView(log, f) == Reversed(filtered_entries(log, f))

\* Variant: the export iterates the filtered entries.
HistoryPage_exports_filtered(trig, w, env, log) ==
  IF Len(log) = 0 THEN [Blank(log) EXCEPT !.shown = {"no_entries"}]
  ELSE LET base == [Blank(log) EXCEPT
                      !.rendered = {"filter_emotion", "export_all"},
                      !.shown = {"total_entries", "showing"},
                      !.history_view = HistoryView(log, w.filter_emotion)]
       IN  IF ~Button(trig, "export_all") THEN base
           ELSE [base EXCEPT
                   !.rendered = @ \cup {"download_journal"},
                   !.export_text =
                      ExportText(filtered_entries(log, w.filter_emotion)),
                   !.clock = env.clock]

\* lines 278-317
HistoryPage(trig, w, env, log) ==
  IF Len(log) = 0 THEN [Blank(log) EXCEPT !.shown = {"no_entries"}]
  ELSE LET base == [Blank(log) EXCEPT
                      !.rendered = {"filter_emotion", "export_all"},
                      !.shown = {"total_entries", "showing"},
                      !.history_view = HistoryView(log, w.filter_emotion)]
       IN  IF ~Button(trig, "export_all") THEN base
           ELSE [base EXCEPT
                   !.rendered = @ \cup {"download_journal"},
                   !.export_text = ExportText(log),
                   !.clock = env.clock]

\* Variant: the log is initialised on every run.
SessionEntries_reinit == <<>>

\* lines 44-46: the log the rest of the run works on
SessionEntries == IF ~has_entries THEN <<>> ELSE entries

\* lines 76-317: the page chosen in the sidebar
RenderPage(trig, w, env, log) ==
  IF w.page = Pages[1] THEN JournalPage(trig, w, env, log)
  ELSE IF w.page = Pages[2] THEN PromptPage(trig, w, env, log)
  ELSE IF w.page = Pages[3] THEN TherapyPage(trig, w, env, log)
  ELSE HistoryPage(trig, w, env, log)

\* One execution of the script, lines 1-331, for the interaction `trig` with
\* the widget values w and the environment env.
ScriptRun(trig, w, env) ==
  \E s \in {Startup(env)} :
  \E r \in {IF s.stopped THEN Blank(entries)
             ELSE RenderPage(trig, w, env, SessionEntries)} :
      /\ entries' = r.entries
      /\ has_entries' = (has_entries \/ ~s.stopped)
      /\ page' = w.page
      /\ user_entry' = w.user_entry
      /\ topic' = w.topic
      /\ quick_entry' = w.quick_entry
      /\ filter_emotion' = w.filter_emotion
      /\ trigger' = trig
      /\ rendered' = IF s.stopped THEN {} ELSE r.rendered \cup {"navigate"}
      /\ shown' = s.shown \cup r.shown
      /\ startup' = [configured |-> env.configured, candidates |-> env.candidates]
      /\ model' = s.model
      /\ using_model' = s.using
      /\ calls' = s.tests \o r.calls
      /\ raw' = r.raw
      /\ detected' = r.detected
      /\ prompt_text' = r.prompt_text
      /\ emotion_rows' = r.emotion_rows
      /\ entries_text' = r.entries_text
      /\ full_summary' = r.full_summary
      /\ history_view' = r.history_view
      /\ export_text' = r.export_text
      /\ now' = r.clock

\* ---------------------------------------------------------- the environment
AllOk == [i \in 1..Len(model_options) |-> "ok"]

AllFail == [i \in 1..Len(model_options) |-> "generate_raises"]

\* Every outcome of lines 9-30.  The loop leaves at the first candidate that
\* works, so what later candidates would do is fixed to "ok".
AllStartupEnvs ==
  {[configured |-> FALSE, candidates |-> AllOk]}
    \cup {[configured |-> TRUE, candidates |-> c] :
            c \in {f \in [1..Len(model_options) -> CandidateOutcomes] :
                     \A i, j \in 1..Len(model_options) :
                       (i < j /\ f[i] = "ok") => f[j] = "ok"}}

\* The outcomes of lines 9-30 drawn where the startup is not the subject:
\* no API key, the first candidate works, no test request succeeds.
StartupEnvs ==
  {[configured |-> FALSE, candidates |-> AllOk],
   [configured |-> TRUE, candidates |-> AllOk],
   [configured |-> TRUE, candidates |-> AllFail]}

TopicInputs == {Topics[1], Topics[2]}

TextInputs == {<<>>, <<" ", "\n">>, <<" ", "h", "i", "\n">>}

DetectOutcomes ==
  {Returned(<<" ">> \o Capitalize(W_sadness) \o <<"\n">>), Raised}

SupportOutcomes == {Returned(<<"k">>), Raised}

PromptOutcomes == {Returned(<<"Q", "?">>), Raised}

SummaryOutcomes == {Returned(<<"S">>), Raised}

Env(su, d, s, p, sm, n) ==
  [configured |-> su.configured, candidates |-> su.candidates,
   detect |-> d, support |-> s, prompt |-> p, summary |-> sm, clock |-> n]

\* The widget values the browser holds: those of the widgets the last run
\* rendered; a widget that was not rendered starts again from its default.
Widgets ==
  [page |-> IF "navigate" \in rendered THEN page ELSE Pages[1],
   user_entry |-> IF "user_entry" \in rendered THEN user_entry ELSE <<>>,
   topic |-> IF "topic" \in rendered THEN topic ELSE Topics[1],
   quick_entry |-> IF "quick_journal" \in rendered THEN quick_entry ELSE <<>>,
   filter_emotion |-> IF "filter_emotion" \in rendered THEN filter_emotion ELSE T_All]

\* line 287: the emotions offered by the filter
all_emotions == {entries[i].emotion : i \in 1..Len(entries)}

\* ------------------------------------------------------------------ actions
\* A new session: nothing in st.session_state, nothing rendered yet.
NewSession ==
  /\ entries = <<>>
  /\ has_entries = FALSE
  /\ page = Pages[1]
  /\ user_entry = <<>>
  /\ topic = Topics[1]
  /\ quick_entry = <<>>
  /\ filter_emotion = T_All
  /\ trigger = "none"
  /\ rendered = {}
  /\ shown = {}
  /\ startup = [configured |-> FALSE, candidates |-> AllOk]
  /\ model = 0
  /\ using_model = 0
  /\ calls = <<>>
  /\ detected = <<>>
  /\ prompt_text = <<>>
  /\ emotion_rows = <<>>
  /\ entries_text = <<>>
  /\ full_summary = <<>>
  /\ history_view = <<>>
  /\ export_text = <<>>
  /\ now = 0

Init == NewSession /\ raw = Raised

\* The first load of the page, or "Rerun" from the menu: no widget changes.
Rerun(su) ==
  ScriptRun("none", Widgets, Env(su, Raised, Raised, Raised, Raised, now))

\* line 49
Navigate(su, p) ==
  /\ "navigate" \in rendered
  /\ p # Widgets.page
  /\ ScriptRun("none", [Widgets EXCEPT !.page = p],
               Env(su, Raised, Raised, Raised, Raised, now))

\* line 80: the text area is committed without a button click
EditEntry(su, t) ==
  /\ "user_entry" \in rendered
  /\ t # Widgets.user_entry
  /\ ScriptRun("none", [Widgets EXCEPT !.user_entry = t],
               Env(su, Raised, Raised, Raised, Raised, now))

\* line 89
ClickSaveEntry(cap, su, d, s, n) ==
  /\ "save_entry" \in rendered
  /\ Len(entries) < cap
  /\ ScriptRun("save_entry", Widgets, Env(su, d, s, Raised, Raised, n))

\* line 148
SelectTopic(su, tp) ==
  /\ "topic" \in rendered
  /\ tp # Widgets.topic
  /\ ScriptRun("none", [Widgets EXCEPT !.topic = tp],
               Env(su, Raised, Raised, Raised, Raised, now))

\* line 154
ClickGeneratePrompt(su, p) ==
  /\ "generate_prompt" \in rendered
  /\ ScriptRun("generate_prompt", Widgets,
               Env(su, Raised, Raised, p, Raised, now))

\* line 169: the response text area is committed without a button click
EditQuick(su, t) ==
  /\ "quick_journal" \in rendered
  /\ t # Widgets.quick_entry
  /\ ScriptRun("none", [Widgets EXCEPT !.quick_entry = t],
               Env(su, Raised, Raised, Raised, Raised, now))

\* line 171: "Save This Entry" is clicked with t in the response text area
ClickSaveThis(cap, su, t, d, p, n) ==
  /\ "save_this_entry" \in rendered
  /\ Len(entries) < cap
  /\ ScriptRun("save_this_entry", [Widgets EXCEPT !.quick_entry = t],
               Env(su, d, Raised, p, Raised, n))

\* line 228
ClickGenerateSummary(su, sm) ==
  /\ "generate_summary" \in rendered
  /\ ScriptRun("generate_summary", Widgets,
               Env(su, Raised, Raised, Raised, sm, now))

\* line 288
SelectFilter(su, f) ==
  /\ "filter_emotion" \in rendered
  /\ f \in {T_All} \cup all_emotions
  /\ f # Widgets.filter_emotion
  /\ ScriptRun("none", [Widgets EXCEPT !.filter_emotion = f],
               Env(su, Raised, Raised, Raised, Raised, now))

\* line 304
ClickExport(su) ==
  /\ "export_all" \in rendered
  /\ ScriptRun("export_all", Widgets,
               Env(su, Raised, Raised, Raised, Raised, now))

\* lines 267 and 312: a download button is clicked
ClickDownload(su, b) ==
  /\ b \in rendered
  /\ ScriptRun(b, Widgets, Env(su, Raised, Raised, Raised, Raised, now))

ClockValues == now..MaxClock

Next ==
  \/ \E su \in StartupEnvs : Rerun(su)
  \/ \E su \in StartupEnvs, p \in Range(Pages) : Navigate(su, p)
  \/ \E su \in StartupEnvs, t \in TextInputs : EditEntry(su, t)
  \/ \E su \in StartupEnvs, d \in DetectOutcomes,
        s \in SupportOutcomes, n \in ClockValues :
       ClickSaveEntry(MaxEntries, su, d, s, n)
  \/ \E su \in StartupEnvs, tp \in TopicInputs : SelectTopic(su, tp)
  \/ \E su \in StartupEnvs, p \in PromptOutcomes : ClickGeneratePrompt(su, p)
  \/ \E su \in StartupEnvs, t \in TextInputs : EditQuick(su, t)
  \/ \E su \in StartupEnvs, t \in TextInputs, d \in DetectOutcomes,
        p \in PromptOutcomes, n \in ClockValues :
       ClickSaveThis(MaxEntries, su, t, d, p, n)
  \/ \E su \in StartupEnvs, sm \in SummaryOutcomes :
       ClickGenerateSummary(su, sm)
  \/ \E su \in StartupEnvs, f \in {T_All} \cup Range(valid_emotions) :
       SelectFilter(su, f)
  \/ \E su \in StartupEnvs : ClickExport(su)
  \/ \E su \in StartupEnvs, b \in {"download_summary", "download_journal"} :
       ClickDownload(su, b)

Spec == Init /\ [][Next]_vars

\* ------------------------------------------- the detector on its own inputs
RawPads == {<<>>, <<" ">>, <<"\n">>, <<"\t", " ">>}

RawWords ==
  Range(valid_emotions)
    \cup {W_disgust, W_happy, <<>>, W_joy \o <<".">>, W_joy \o <<" ">> \o W_fear}

RawOutputs ==
  {p \o v \o q : p \in RawPads, q \in RawPads,
                 v \in UNION {{w, Upper(w), Capitalize(w)} : w \in RawWords}}

InitNormalize ==
  /\ NewSession
  /\ raw \in {Returned(t) : t \in RawOutputs} \cup {Raised}

\* lines 62-73 applied to the pending backend outcome
Normalize ==
  /\ detected = <<>>
  /\ \E d \in {detect_emotion_with_gemini(raw)} :
       /\ ~d.raises
       /\ detected' = <<d.emotion, d.confidence>>
       /\ shown' = IF d.error THEN {"err_detection"} ELSE {}
       /\ calls' = <<"detect">>
  /\ UNCHANGED <<entries, has_entries, page, user_entry, topic, quick_entry,
                 filter_emotion, trigger, rendered, startup, model, using_model,
                 raw, prompt_text, emotion_rows, entries_text, full_summary,
                 history_view, export_text, now>>

SpecNormalize == InitNormalize /\ [][Normalize]_vars

\* ------------------------------------------------ the startup on every outcome
NextStartup ==
  \/ \E su \in AllStartupEnvs : Rerun(su)
  \/ \E su \in AllStartupEnvs, p \in Range(Pages) : Navigate(su, p)
  \/ \E su \in AllStartupEnvs, t \in TextInputs : EditEntry(su, t)
  \/ \E su \in AllStartupEnvs, d \in DetectOutcomes, s \in SupportOutcomes :
       ClickSaveEntry(1, su, d, s, now)

SpecStartup == Init /\ [][NextStartup]_vars

\* ------------------------------------- long logs and long texts for the summary
LongText == Repeat("x", PromptTextBudget + 1)

LongTextInputs == {<<"a">>, LongText}

\* a backend that answers by the text it is given
LongDetect(t) == IF t = LongText THEN Returned(W_sadness) ELSE Returned(W_joy)

Working == [configured |-> TRUE, candidates |-> AllOk]

NextLong ==
  \/ Rerun(Working)
  \/ \E p \in {Pages[1], Pages[3]} : Navigate(Working, p)
  \/ \E t \in LongTextInputs : EditEntry(Working, t)
  \/ /\ Widgets.user_entry = LongText
          => Cardinality({i \in 1..Len(entries) : entries[i].text = LongText})
               < MaxLongTexts
     /\ ClickSaveEntry(MaxLongEntries, Working, LongDetect(Widgets.user_entry),
                       Returned(<<"k">>), now)
  \/ \E sm \in SummaryOutcomes : ClickGenerateSummary(Working, sm)
  \/ ClickDownload(Working, "download_summary")

SpecLong == Init /\ [][NextLong]_vars

\* =================================================================== claims
\* Vocabulary of the claims, stated without the operators of the model.
NonBlank(t) == \E i \in 1..Len(t) : t[i] \notin Whitespace

IsPrefixOf(s, t) == Len(s) <= Len(t) /\ \A i \in 1..Len(s) : t[i] = s[i]

Last(s) == s[Len(s)]

\* the run passed the startup and rendered the page p
PageRan(ren, pg, p) == "navigate" \in ren /\ pg = p

Occurrences(s, x) == Cardinality({i \in 1..Len(s) : s[i] = x})

\* C1: on the Journal Entry page every click of Save Entry with text that is
\* not blank appends exactly one entry; the entries before it are untouched,
\* the new last entry holds the submitted text unchanged and the emotion and
\* confidence the detector returned, whether or not the supportive-response
\* request fails.
C1_SaveEntryAppendsOne ==
  [][(trigger' = "save_entry" /\ PageRan(rendered', page', Pages[1])
        /\ NonBlank(user_entry'))
       => /\ Len(entries') = Len(entries) + 1
          /\ IsPrefixOf(entries, entries')
          /\ Last(entries').text = user_entry'
          /\ Len(detected') = 2
          /\ Last(entries').emotion = detected'[1]
          /\ Last(entries').confidence = detected'[2]]_vars

\* C1 witness: an entry whose text has surrounding whitespace was saved in a
\* run whose supportive-response request failed.
C1_Witness ==
  /\ trigger = "save_entry"
  /\ "entry_saved" \in shown
  /\ "support_fallback" \in shown
  /\ Len(entries) >= 2
  /\ Last(entries).text = user_entry
  /\ user_entry[1] \in Whitespace

\* C2: the log is append-only: every step leaves the earlier log a prefix of
\* the later one, and once the session holds a log it is never initialised
\* again.
C2_AppendOnly ==
  [][/\ IsPrefixOf(entries, entries')
     /\ has_entries => has_entries'
     /\ ~has_entries => entries = <<>>]_vars

\* C2 witness: a log of several entries seen through a filtered history with
\* the export built, after runs of other pages.
C2_Witness ==
  /\ Len(entries) >= 2
  /\ "download_journal" \in rendered
  /\ filter_emotion # T_All
  /\ entries[1].timestamp # Last(entries).timestamp

\* the raw text is the label L in any letter case inside surrounding whitespace
SameLetter(c, l) ==
  c = l \/ \E n \in 1..26 : LowerLetters[n] = l /\ UpperLetters[n] = c

TrimmedCaseMatch(t, L) ==
  \E i \in 0..Len(t) :
    /\ i + Len(L) <= Len(t)
    /\ \A k \in 1..i : t[k] \in Whitespace
    /\ \A k \in (i + Len(L) + 1)..Len(t) : t[k] \in Whitespace
    /\ \A k \in 1..Len(L) : SameLetter(t[i + k], L[k])

SixLabels == {W_joy, W_sadness, W_anger, W_fear, W_surprise, W_neutral}

SevenLabels == SixLabels \cup {W_disgust}

\* C3 as amended: a raw output that does not raise is trimmed and lower-cased;
\* if that is one of joy, sadness, anger, fear, surprise, neutral the detector
\* returns it, every other output (disgust among them) gives neutral; the
\* confidence is 0.85 in both cases.
C3_NormalizeSixLabels ==
  (Len(detected) = 2 /\ raw.ok)
    => /\ detected[2] = 850
       /\ \A L \in SixLabels : TrimmedCaseMatch(raw.text, L) => detected[1] = L
       /\ (\A L \in SixLabels : ~TrimmedCaseMatch(raw.text, L))
            => detected[1] = W_neutral

\* C3 as written, with the label set the specification enumerates (disgust
\* included).
C3_NormalizeSevenLabels ==
  (Len(detected) = 2 /\ raw.ok)
    => /\ detected[2] = 850
       /\ \A L \in SevenLabels : TrimmedCaseMatch(raw.text, L) => detected[1] = L
       /\ (\A L \in SevenLabels : ~TrimmedCaseMatch(raw.text, L))
            => detected[1] = W_neutral

\* C3 witness: an output in another letter case with whitespace around it was
\* mapped to a label other than neutral.
C3_Witness ==
  /\ Len(detected) = 2
  /\ raw.ok
  /\ detected[1] = W_surprise
  /\ raw.text[1] \in Whitespace
  /\ Last(raw.text) \in Whitespace
  /\ \E i \in 1..Len(raw.text) : raw.text[i] = "S"

\* C4: when the emotion request of a save fails the detector returns
\* (neutral, 0.5), nothing propagates to the save handler, the entry is
\* appended with neutral and 0.5, and the request is made once.
C4_DetectionFailureFallback ==
  [][(trigger' = "save_entry" /\ PageRan(rendered', page', Pages[1])
        /\ NonBlank(user_entry') /\ ~raw'.ok)
       => /\ detected' = <<W_neutral, 500>>
          /\ "err_occurred" \notin shown'
          /\ "entry_saved" \in shown'
          /\ Len(entries') = Len(entries) + 1
          /\ IsPrefixOf(entries, entries')
          /\ Last(entries').emotion = W_neutral
          /\ Last(entries').confidence = 500
          /\ Occurrences(calls', "detect") = 1]_vars

\* C4 witness: a save whose emotion request failed, after a save whose
\* request succeeded.
C4_Witness ==
  /\ trigger = "save_entry"
  /\ "err_detection" \in shown
  /\ "entry_saved" \in shown
  /\ ~raw.ok
  /\ Len(entries) >= 2
  /\ entries[1].confidence = 850
  /\ Last(entries).confidence = 500

\* C5: a save action (Save Entry, Save This Entry) submitted with blank text
\* creates no entry, leaves the log unchanged and shows a warning.
C5_BlankSaveWarns ==
  [][(\/ trigger' = "save_entry" /\ ~NonBlank(user_entry')
      \/ trigger' = "save_this_entry" /\ ~NonBlank(quick_entry'))
       /\ "navigate" \in rendered'
       => /\ entries' = entries
          /\ "warn_write_something" \in shown']_vars

\* C6: after Generate Prompt, a click of Save This Entry with a response that
\* is not blank appends one entry whose text is "Prompt: " + the prompt +
\* blank line + "Response: " + the response.
C6_SaveThisEntryAppends ==
  [][(trigger' = "save_this_entry" /\ "save_this_entry" \in rendered
        /\ "navigate" \in rendered' /\ NonBlank(quick_entry'))
       => /\ Len(entries') = Len(entries) + 1
          /\ IsPrefixOf(entries, entries')
          /\ Last(entries').text =
               T_Prompt \o prompt_text \o <<"\n", "\n">> \o T_Response
                 \o quick_entry']_vars

\* the displayed label is the emotion with its first letter in upper case
IsCapitalOf(label, emotion) ==
  /\ Len(label) = Len(emotion)
  /\ \A i \in 1..Len(label) :
       IF i = 1 THEN label[i] # emotion[i] /\ SameLetter(label[i], emotion[i])
       ELSE label[i] = emotion[i]

FirstIndex(label, log) ==
  CHOOSE i \in 1..Len(log) :
    /\ IsCapitalOf(label, log[i].emotion)
    /\ \A j \in 1..(i - 1) : ~IsCapitalOf(label, log[j].emotion)

DigitValue(c) == CHOOSE d \in 0..9 : Digits[d + 1] = c

RECURSIVE ParseNat(_)
ParseNat(t) ==
  IF Len(t) = 0 THEN 0
  ELSE 10 * ParseNat(SubSeq(t, 1, Len(t) - 1)) + DigitValue(Last(t))

\* the number of tenths a string of the form "ddd.d" denotes
TenthsOf(t) ==
  10 * ParseNat(SubSeq(t, 1, Len(t) - 2)) + DigitValue(Last(t))

RECURSIVE SumCounts(_, _)
SumCounts(rows, k) == IF k = 0 THEN 0 ELSE rows[k].count + SumCounts(rows, k - 1)

RECURSIVE SumLen(_, _)
SumLen(items, k) == IF k = 0 THEN 0 ELSE Len(items[k]) + SumLen(items, k - 1)

\* text is the items in order, with sep between neighbours and nothing else
IsJoined(text, items, sep) ==
  LET n == Len(items)
      Off(k) == SumLen(items, k - 1) + (k - 1) * Len(sep)
  IN  /\ Len(text) = IF n = 0 THEN 0 ELSE SumLen(items, n) + (n - 1) * Len(sep)
      /\ \A k \in 1..n :
           SubSeq(text, Off(k) + 1, Off(k) + Len(items[k])) = items[k]
      /\ \A k \in 1..(n - 1) :
           SubSeq(text, Off(k) + Len(items[k]) + 1, Off(k + 1)) = sep

\* rows is the distribution of log: one row per label of the log, each with
\* the number of entries carrying the label and count / total * 100 to one
\* decimal; larger counts first, equal counts in order of first appearance.
IsDistributionOf(rows, log) ==
  /\ \A i \in 1..Len(log) :
       \E k \in 1..Len(rows) : IsCapitalOf(rows[k].label, log[i].emotion)
  /\ \A k, l \in 1..Len(rows) : k # l => rows[k].label # rows[l].label
  /\ \A k \in 1..Len(rows) :
       /\ rows[k].count > 0
       /\ rows[k].count =
            Cardinality({i \in 1..Len(log) :
                           IsCapitalOf(rows[k].label, log[i].emotion)})
       /\ Len(rows[k].percentage) >= 3
       /\ rows[k].percentage[Len(rows[k].percentage) - 1] = "."
       /\ LET d == TenthsOf(rows[k].percentage) * Len(log) - rows[k].count * 1000
          IN  2 * d <= Len(log) /\ -2 * d <= Len(log)
  /\ SumCounts(rows, Len(rows)) = Len(log)
  /\ \A k, l \in 1..Len(rows) :
       k < l => \/ rows[k].count > rows[l].count
                \/ /\ rows[k].count = rows[l].count
                   /\ FirstIndex(rows[k].label, log) < FirstIndex(rows[l].label, log)

\* the downloadable summary ends with the distribution heading and one line
\* per row, in the order of the rows
SummaryListsRows(summary, rows) ==
  LET lines == [k \in 1..Len(rows) |->
                  <<"-", " ">> \o rows[k].label \o <<":", " ">>
                    \o DecimalDigits(rows[k].count) \o T_Entries
                    \o rows[k].percentage \o <<"%", ")", "\n">>]
      head == Len(summary) - SumLen(lines, Len(lines))
      title == T_Distribution \o <<"\n">>
  IN  /\ head >= Len(title)
      /\ SubSeq(summary, head - Len(title) + 1, head) = title
      /\ IsJoined(SubSeq(summary, head + 1, Len(summary)), lines, <<>>)

\* C7: on the Therapy Prep page a log that is not empty is shown with one row
\* per label occurring in it, each count the number of entries with the label
\* (the counts sum to the length of the log), each percentage count / total *
\* 100, rows by descending count and ties by first appearance in the log; the
\* downloadable summary lists the same rows; an empty log shows "no entries
\* yet" and no row.
C7_EmotionDistribution ==
  PageRan(rendered, page, Pages[3])
    => IF entries = <<>>
       THEN emotion_rows = <<>> /\ "no_entries" \in shown /\ full_summary = <<>>
       ELSE /\ "no_entries" \notin shown
            /\ IsDistributionOf(emotion_rows, entries)
            /\ "download_summary" \in rendered
                 => SummaryListsRows(full_summary, emotion_rows)

\* C7 witness: the label seen first in the log has the smaller count, so the
\* rows are not in order of appearance, and the summary was generated.
C7_Witness ==
  /\ PageRan(rendered, page, Pages[3])
  /\ "download_summary" \in rendered
  /\ Len(entries) = 3
  /\ Len(emotion_rows) = 2
  /\ emotion_rows[1].count = 2
  /\ ~IsCapitalOf(emotion_rows[1].label, entries[1].emotion)

\* the block of one entry in the export, written out
ExportedBlockOf(e) ==
  <<"\n">> \o [i \in 1..60 |-> "="] \o <<"\n">>
    \o <<"D","a","t","e",":"," ">> \o e.timestamp \o <<"\n">>
    \o <<"E","m","o","t","i","o","n",":"," ">> \o e.emotion
    \o <<" ","(","c","o","n","f","i","d","e","n","c","e",":"," ">>
    \o (IF e.confidence = 850 THEN <<"8","5",".","0","%">>
        ELSE <<"5","0",".","0","%">>)
    \o <<")", "\n", "\n">> \o e.text \o <<"\n">>

\* C8: the export is built from the whole log in insertion order, whatever
\* filter is selected: one block per entry (separator line, timestamp, label,
\* confidence as a percentage with one decimal, the full text), blocks in the
\* order of the entries; no text is built from an empty log.
C8_ExportWholeLogInOrder ==
  /\ "download_journal" \in rendered
       => IsJoined(export_text,
                   [i \in 1..Len(entries) |-> ExportedBlockOf(entries[i])], <<>>)
  /\ entries = <<>> => export_text = <<>>

\* C8 witness: the export was built while a filter hid some of the entries.
C8_Witness ==
  /\ "download_journal" \in rendered
  /\ filter_emotion # T_All
  /\ Len(entries) >= 2
  /\ Len(history_view) < Len(entries)
  /\ Len(history_view) >= 1
  /\ entries[1].emotion # Last(entries).emotion

FirstChars(t, b) == [i \in 1..(IF Len(t) < b THEN Len(t) ELSE b) |-> t[i]]

ListedItem(e, shownText) ==
  <<"[">> \o e.timestamp \o <<"]", " ">>
    \o <<"E","m","o","t","i","o","n",":"," ">> \o e.emotion \o <<"\n">>
    \o shownText

WindowSize(log, w) == IF Len(log) < w THEN Len(log) ELSE w

\* the most recent w entries, oldest first, each text cut to b characters
ChronologicalListing(log, w, b) ==
  [k \in 1..WindowSize(log, w) |->
     ListedItem(log[Len(log) - WindowSize(log, w) + k],
                FirstChars(log[Len(log) - WindowSize(log, w) + k].text, b))]

\* the most recent w entries, newest first, each text cut to b characters
\* and marked with an ellipsis when cut
ReverseListingWithEllipsis(log, w, b) ==
  [k \in 1..WindowSize(log, w) |->
     ListedItem(log[Len(log) + 1 - k],
                IF Len(log[Len(log) + 1 - k].text) > b
                THEN FirstChars(log[Len(log) + 1 - k].text, b) \o <<".", ".", ".">>
                ELSE log[Len(log) + 1 - k].text)]

\* C9 as amended: Generate Therapy Summary lists the most recent 10 entries
\* (all of them when there are fewer) oldest first, each text cut to its first
\* 400 characters with no ellipsis marker; the counts and percentages are
\* those of the full log; the log is not changed.
C9_SummaryChronological400 ==
  [][(trigger' = "generate_summary" /\ PageRan(rendered', page', Pages[3]))
       => /\ entries' = entries
          /\ IsJoined(entries_text', ChronologicalListing(entries, 10, 400),
                      <<"\n", "\n">>)
          /\ IsDistributionOf(emotion_rows', entries)
          /\ "download_summary" \in rendered'
               => SummaryListsRows(full_summary', emotion_rows')]_vars

\* C9 as written: the listing is newest first and each text is truncated to
\* 200 characters with an ellipsis marker.
C9_SummaryReverse200 ==
  [][(trigger' = "generate_summary" /\ PageRan(rendered', page', Pages[3]))
       => /\ entries' = entries
          /\ IsJoined(entries_text', ReverseListingWithEllipsis(entries, 10, 200),
                      <<"\n", "\n">>)
          /\ IsDistributionOf(emotion_rows', entries)
          /\ "download_summary" \in rendered'
               => SummaryListsRows(full_summary', emotion_rows')]_vars

\* C9 witness: a summary was generated from a log of more than 10 entries
\* whose recent part holds a text of more than 400 characters.
C9_Witness ==
  /\ trigger = "generate_summary"
  /\ "download_summary" \in rendered
  /\ Len(entries) > 10
  /\ \E i \in (Len(entries) - 9)..Len(entries) : Len(entries[i].text) > 400
  /\ Len(entries[1].text) <= 400

\* the first candidate, in list order, whose construction and test request
\* both succeed; 0 when there is none
FirstWorking ==
  LET ok == {i \in 1..Len(model_options) : startup.candidates[i] = "ok"}
  IN  IF ok = {} THEN 0 ELSE CHOOSE i \in ok : \A j \in ok : i <= j

\* C10: the model of a run is the first candidate whose construction and test
\* request both succeed; when no test request succeeds the run shows "Could
\* not load any Gemini model" and stops before a page is rendered, so no save
\* runs against a model that failed its test request.
C10_FirstWorkingModelOrStop ==
  /\ "navigate" \in rendered
       => FirstWorking # 0 /\ model = FirstWorking /\ using_model = FirstWorking
  /\ (startup.configured /\ FirstWorking = 0)
       => "err_no_model" \in shown /\ rendered = {}
  /\ "entry_saved" \in shown => using_model # 0

====
